---- MODULE Spec2Model ----
(***************************************************************************)
(* Model of the concurrent download engine of music-downloader (main.go):  *)
(* Downloader.Download, Downloader.worker, Downloader.downloadTrack,       *)
(* Downloader.streamSaveFailedTracks, analyzeFailure and sanitizeFilename. *)
(* Text is a sequence of one-character strings (one element per rune).     *)
(* The external tool (yt-dlp) and the file system calls that can fail are  *)
(* the environment: their outcomes are chosen nondeterministically.        *)
(***************************************************************************)
EXTENDS Integers, Sequences, FiniteSets, TLC

\* ------------------------------------------------------------------ bounds
MaxTracks == 2      \* longest track list handed to Download
MaxWorkers == 2     \* largest configured worker count
MaxErrTexts == 1    \* number of distinct captured error texts the tool produces
MaxWords == 3       \* longest error text given to analyzeFailure, in words
MaxLines == 3       \* longest playlist file given to readPlaylist, in lines
MaxStreamLines == 2 \* most lines the tool writes to one of its output streams

\* ------------------------------------------------------------ text helpers
RECURSIVE ReplaceAll(_, _, _)
\* strings.ReplaceAll for a one-rune pattern
ReplaceAll(s, old, new) ==
  IF s = <<>> THEN <<>>
  ELSE <<IF Head(s) = old THEN new ELSE Head(s)>> \o ReplaceAll(Tail(s), old, new)

WhiteSpace == {" ", "\t", "\n", "\r", "\f"}

RECURSIVE TrimLeft(_)
TrimLeft(s) ==
  IF s # <<>> /\ Head(s) \in WhiteSpace THEN TrimLeft(Tail(s)) ELSE s

RECURSIVE TrimRight(_)
TrimRight(s) ==
  IF s # <<>> /\ s[Len(s)] \in WhiteSpace THEN TrimRight(SubSeq(s, 1, Len(s) - 1)) ELSE s

\* strings.TrimSpace
TrimSpace(s) == TrimRight(TrimLeft(s))

\* strings.Contains
Contains(s, sub) ==
  \E i \in 0..(Len(s) - Len(sub)) : SubSeq(s, i + 1, i + Len(sub)) = sub

UpperCase ==
  <<"A", "B", "C", "D", "E", "F", "G", "H", "I", "J", "K", "L", "M",
    "N", "O", "P", "Q", "R", "S", "T", "U", "V", "W", "X", "Y", "Z">>
LowerCase ==
  <<"a", "b", "c", "d", "e", "f", "g", "h", "i", "j", "k", "l", "m",
    "n", "o", "p", "q", "r", "s", "t", "u", "v", "w", "x", "y", "z">>

LowerRune(c) ==
  IF \E i \in 1..26 : UpperCase[i] = c
  THEN LowerCase[CHOOSE i \in 1..26 : UpperCase[i] = c]
  ELSE c

\* strings.ToLower
ToLower(s) == [i \in 1..Len(s) |-> LowerRune(s[i])]

\* ------------------------------------------------------- sanitizeFilename
MaxNameRunes == 100

invalid == <<"/", "\\", ":", "*", "?", "\"", "<", ">", "|", "\n", "\r", "\t">>

RECURSIVE ReplaceInvalid(_, _)
ReplaceInvalid(s, k) ==
  IF k > Len(invalid) THEN s
  ELSE ReplaceInvalid(ReplaceAll(s, invalid[k], "_"), k + 1)

sanitizeFilename(name) ==
  LET cleaned == TrimSpace(ReplaceInvalid(name, 1))
  IN IF Len(cleaned) > MaxNameRunes THEN SubSeq(cleaned, 1, MaxNameRunes) ELSE cleaned

\* ------------------------------------------------------------ readPlaylist
\* index of the first occurrence of sep in s; 0 when there is none
IndexOf(s, sep) ==
  LET hits == {i \in 1..(Len(s) - Len(sep) + 1) : SubSeq(s, i, i + Len(sep) - 1) = sep}
  IN IF hits = {} THEN 0 ELSE CHOOSE i \in hits : \A j \in hits : i <= j

RECURSIVE Split(_, _)
\* strings.Split for a non-empty separator
Split(s, sep) ==
  IF IndexOf(s, sep) = 0 THEN <<s>>
  ELSE <<SubSeq(s, 1, IndexOf(s, sep) - 1)>>
         \o Split(SubSeq(s, IndexOf(s, sep) + Len(sep), Len(s)), sep)

RECURSIVE Join(_, _)
\* strings.Join
Join(elems, sep) ==
  IF elems = <<>> THEN <<>>
  ELSE IF Len(elems) = 1 THEN elems[1]
  ELSE elems[1] \o sep \o Join(Tail(elems), sep)

separator == <<" ", "-", " ">>

\* the Track appended for a line with at least two parts
ParseTrack(line) ==
  [Artist |-> TrimSpace(Split(line, separator)[1]),
   Title |-> TrimSpace(Join(Tail(Split(line, separator)), separator)),
   Raw |-> line]

\* a duplicate check that never finds the line
IsSeen_Mut(line, seen) == FALSE

\* seen[line]
IsSeen(line, seen) == line \in seen

RECURSIVE ScanLines(_, _, _)
\* the scanner loop of readPlaylist over the lines left, with the seen map
\* and the tracks appended so far
ScanLines(lines, seen, acc) ==
  IF lines = <<>> THEN acc
  ELSE IF TrimSpace(Head(lines)) = <<>> \/ IsSeen(TrimSpace(Head(lines)), seen)
       THEN ScanLines(Tail(lines), seen, acc)
  ELSE IF Len(Split(TrimSpace(Head(lines)), separator)) < 2
       THEN ScanLines(Tail(lines), seen \cup {TrimSpace(Head(lines))}, acc)
  ELSE ScanLines(Tail(lines), seen \cup {TrimSpace(Head(lines))},
                 Append(acc, ParseTrack(TrimSpace(Head(lines)))))

\* the tracks readPlaylist returns for a file with these lines
readPlaylist(lines) == ScanLines(lines, {}, <<>>)

\* --------------------------------------------------------- analyzeFailure
NetworkError == 0
NotFound == 1
UnknownError == 2

networkKeywords ==
  << <<"c", "o", "n", "n", "e", "c", "t", "i", "o", "n">>,
     <<"p", "r", "o", "x", "y">>,
     <<"t", "i", "m", "e", "o", "u", "t">>,
     <<"n", "e", "t", "w", "o", "r", "k">>,
     <<"d", "n", "s">>,
     <<"s", "s", "l">>,
     <<"t", "l", "s">>,
     <<"c", "e", "r", "t", "i", "f", "i", "c", "a", "t", "e">>,
     <<"h", "o", "s", "t">>,
     <<"r", "e", "f", "u", "s", "e", "d">>,
     <<"u", "n", "r", "e", "a", "c", "h", "a", "b", "l", "e">>,
     <<"b", "l", "o", "c", "k", "e", "d">>,
     <<"4", "0", "3">>,
     <<"5", "0", "3">>,
     <<"5", "0", "2">>,
     <<"5", "0", "0">>,
     <<"u", "n", "a", "b", "l", "e", " ", "t", "o", " ", "d", "o", "w", "n", "l", "o", "a", "d">>,
     <<"h", "t", "t", "p", "e", "r", "r", "o", "r">>,
     <<"u", "r", "l", "e", "r", "r", "o", "r">>,
     <<"n", "o", " ", "s", "u", "c", "h", " ", "h", "o", "s", "t">> >>

notFoundKeywords ==
  << <<"n", "o", " ", "v", "i", "d", "e", "o">>,
     <<"n", "o", "t", " ", "f", "o", "u", "n", "d">>,
     <<"n", "o", " ", "m", "a", "t", "c", "h", "e", "s">>,
     <<"n", "o", " ", "r", "e", "s", "u", "l", "t", "s">>,
     <<"u", "n", "a", "b", "l", "e", " ", "t", "o", " ", "f", "i", "n", "d">>,
     <<"n", "o", " ", "s", "u", "i", "t", "a", "b", "l", "e">>,
     <<"t", "h", "i", "s", " ", "v", "i", "d", "e", "o", " ", "i", "s", " ", "n", "o", "t", " ", "a", "v", "a", "i", "l", "a", "b", "l", "e">>,
     <<"v", "i", "d", "e", "o", " ", "u", "n", "a", "v", "a", "i", "l", "a", "b", "l", "e">>,
     <<"p", "r", "i", "v", "a", "t", "e", " ", "v", "i", "d", "e", "o">>,
     <<"d", "e", "l", "e", "t", "e", "d", " ", "v", "i", "d", "e", "o">>,
     <<"a", "g", "e", "-", "r", "e", "s", "t", "r", "i", "c", "t", "e", "d">> >>

AnyKeyword(text, keywords) ==
  \E k \in 1..Len(keywords) : Contains(text, keywords[k])

\* a classification that looks for the not-found keywords first
analyzeFailure_Mut(errorOutput, cmdErr) ==
  LET errorLower == ToLower(errorOutput)
  IN IF AnyKeyword(errorLower, notFoundKeywords) THEN NotFound
     ELSE IF AnyKeyword(errorLower, networkKeywords) THEN NetworkError
     ELSE UnknownError

\* the FailureReason analyzeFailure returns (cmdErr is accepted and never read)
analyzeFailure(errorOutput, cmdErr) ==
  LET errorLower == ToLower(errorOutput)
  IN IF AnyKeyword(errorLower, networkKeywords) THEN NetworkError
     ELSE IF AnyKeyword(errorLower, notFoundKeywords) THEN NotFound
     ELSE UnknownError

\* ------------------------------------------------------------------ tracks
\* Track values; distinct Raw lines, the first two with one sanitized name
TrackUniverse ==
  << [Artist |-> <<"a">>, Title |-> <<"b", "?">>, Raw |-> <<"a", " ", "-", " ", "b", "?">>],
     [Artist |-> <<"a">>, Title |-> <<"b", "*">>, Raw |-> <<"a", " ", "-", " ", "b", "*">>],
     [Artist |-> <<"c">>, Title |-> <<"d">>, Raw |-> <<"c", " ", "-", " ", "d">>] >>

TrackIds == 1..Len(TrackUniverse)

\* safeName of downloadTrack: sanitizeFilename(fmt.Sprintf("%s - %s", Artist, Title))
safeName ==
  [t \in TrackIds |->
     sanitizeFilename(TrackUniverse[t].Artist \o <<" ", "-", " ">> \o TrackUniverse[t].Title)]

Raw == [t \in TrackIds |-> TrackUniverse[t].Raw]

\* captured error texts the tool may leave for analyzeFailure
ErrTexts ==
  << <<>>,
     <<"P", "r", "o", "x", "y", ":", " ", "n", "o", "t", " ", "f", "o", "u", "n", "d">>,
     <<"V", "i", "d", "e", "o", " ", "u", "n", "a", "v", "a", "i", "l", "a", "b", "l", "e">> >>

\* -------------------------------------------------------- output directory
extensions == <<".mp3", ".webm", ".m4a", ".ogg", ".opus">>

Names == {safeName[t] : t \in TrackIds}

\* a path of the output directory: name + ext, or name + ext + ".tmp"
Path(name, ext, tmp) == [name |-> name, ext |-> ext, tmp |-> tmp]

Paths == {Path(n, extensions[e], b) : n \in Names, e \in 1..Len(extensions), b \in BOOLEAN}

\* os.Stat(p) returns no error
Exists(dir, p) == p \in dir

\* the extensions under which the tool leaves its temp file: the converted
\* audio or the container it downloaded
ToolExtensions == {".mp3", ".webm"}

\* the first recognized extension (in scan order) whose file exists; 0 when none
FirstExisting(dir, name, tmp) ==
  LET hits == {e \in 1..Len(extensions) : Exists(dir, Path(name, extensions[e], tmp))}
  IN IF hits = {} THEN 0 ELSE CHOOSE e \in hits : \A f \in hits : e <= f

\* ------------------------------------------------------------ configuration
retryCount == 2
skipExists == TRUE

Workers == 1..MaxWorkers

\* track lists Download may be given: distinct tracks, in playlist order
TrackLists ==
  {[i \in 1..n |-> i] : n \in 0..(IF MaxTracks < Len(TrackUniverse) THEN MaxTracks ELSE Len(TrackUniverse))}

\* files present before the run: finished downloads of earlier runs
\* (cleanupTempFiles has removed the temp files before Download is called)
EarlierDownloads == {Path(safeName[1], ".opus", FALSE)}

NoResult == [Success |-> FALSE, Skipped |-> FALSE, Reason |-> NetworkError]

VARIABLES
  tracks,            \* the tracks argument of Download
  workers,           \* d.workers
  totalTracks,       \* d.totalTracks
  downloaded,        \* d.downloaded
  skipped,           \* d.skipped
  failed,            \* d.failed
  mutex,             \* d.mutex: 0 when free, else the worker holding it
  jobs,              \* the buffered jobs channel
  jobsClosed,        \* close(jobs) done
  wg,                \* the workers' WaitGroup counter
  saveWg,            \* d.saveWg counter
  chanClosed,        \* close(d.failedTracksChan) done
  dlPc,              \* position of Download: "init", "wait", "returned"
  pc,                \* position of each worker goroutine
  track,             \* the track a worker holds (0: none)
  attempt,           \* loop variable of the retry loop
  result,            \* result variable of the worker
  outDir,            \* the output directory: the paths that exist
  wPc,               \* position of streamSaveFailedTracks; it ends in "openfailed" or "closed"
  wTrack,            \* the track the writer received
  wBuf,              \* bufio.Writer contents not yet flushed
  failFile,          \* lines this run has appended to vk-playlist-failed.txt
  progress,          \* the progress lines printed, in print order
  dequeues,          \* per track: times it was received from jobs
  increments,        \* per track: the counters incremented for it, in order
  calls,             \* per worker: downloadTrack calls for the track it holds
  renameOk,          \* per worker: os.Rename succeeded in the last call
  sleeping,          \* per worker: seconds of the time.Sleep it is in, else 0
  cutShort,          \* per worker: the tool of the attempt was cut short
  stderrText,        \* analyzeFailure on its own: the errorOutput argument
  classified,        \* analyzeFailure on its own: <<>>, or <<the FailureReason returned>>
  playlist,          \* readPlaylist on its own: the lines of the file
  parsed,            \* readPlaylist on its own: <<>>, or <<the tracks returned>>
  toolLines,         \* one attempt: per stream, the lines the tool writes
  nWritten,          \* one attempt: per stream, lines the tool has written to the pipe
  nRead,             \* one attempt: per stream, lines the reader has taken from the pipe
  toolExited,        \* one attempt: the tool has exited
  waitPc,            \* one attempt: downloadTrack at "start", "wait", "waited", "classified"
  rdPc,              \* one attempt: position of the reader goroutine of each stream
  scanned,           \* one attempt: per stream, scanner.Text() of the last Scan (0: none)
  builders,          \* one attempt: stdoutBuilder and stderrBuilder, as the lines appended
  foundShown,        \* one attempt: the shared flag foundShown
  downloadingShown,  \* one attempt: the shared flag downloadingShown
  foundPrints,       \* one attempt: 'Found' lines printed
  downloadingPrints, \* one attempt: 'Downloading' lines printed
  transcript         \* one attempt: <<>>, or <<stderrBuilder.String() as read>>

\* the variables of a run of Download
runVars ==
  <<tracks, workers, totalTracks, downloaded, skipped, failed, mutex, jobs,
    jobsClosed, wg, saveWg, chanClosed, dlPc, pc, track, attempt, result,
    outDir, wPc, wTrack, wBuf, failFile, progress, dequeues, increments,
    calls, renameOk, sleeping, cutShort>>

\* the variables of analyzeFailure checked on its own
analyzeVars == <<stderrText, classified>>

\* the variables a run of Download leaves alone
\* the variables of readPlaylist checked on its own
playlistVars == <<playlist, parsed>>

\* the variables of the output readers of one attempt checked on their own
drainVars ==
  <<toolLines, nWritten, nRead, toolExited, waitPc, rdPc, scanned, builders,
    foundShown, downloadingShown, foundPrints, downloadingPrints, transcript>>

asideVars == <<analyzeVars, playlistVars, drainVars>>

vars == <<runVars, asideVars>>

counterVars == <<downloaded, skipped, failed>>
queueVars == <<jobs, jobsClosed>>
writerVars == <<wPc, wTrack, wBuf, failFile>>
localVars == <<track, attempt, result, calls, renameOk, sleeping, cutShort>>
configVars == <<tracks, workers, totalTracks>>

\* analyzeFailure is not under check (classified: <<>>, or the reason returned)
AnalyzeIdle == stderrText = <<>> /\ classified = <<>>

\* readPlaylist is not under check
PlaylistIdle == playlist = <<>> /\ parsed = <<>>

Streams == {"stdout", "stderr"}

\* the output readers of an attempt are not under check
DrainIdle ==
  /\ toolLines = [st \in Streams |-> <<>>]
  /\ nWritten = [st \in Streams |-> 0]
  /\ nRead = [st \in Streams |-> 0]
  /\ toolExited = FALSE
  /\ waitPc = "start"
  /\ rdPc = [st \in Streams |-> "unstarted"]
  /\ scanned = [st \in Streams |-> 0]
  /\ builders = [st \in Streams |-> <<>>]
  /\ foundShown = FALSE /\ downloadingShown = FALSE
  /\ foundPrints = 0 /\ downloadingPrints = 0
  /\ transcript = <<>>

\* NewDownloader, and the arguments and environment of the run
Init ==
  /\ AnalyzeIdle
  /\ PlaylistIdle
  /\ DrainIdle
  /\ tracks \in TrackLists
  /\ workers \in 1..MaxWorkers
  /\ totalTracks = 0
  /\ downloaded = 0 /\ skipped = 0 /\ failed = 0
  /\ mutex = 0
  /\ jobs = <<>> /\ jobsClosed = FALSE
  /\ wg = 0 /\ saveWg = 0
  /\ chanClosed = FALSE
  /\ dlPc = "init"
  /\ pc = [w \in Workers |-> "unstarted"]
  /\ track = [w \in Workers |-> 0]
  /\ attempt = [w \in Workers |-> 0]
  /\ result = [w \in Workers |-> NoResult]
  /\ outDir \in SUBSET EarlierDownloads
  /\ wPc = "unstarted" /\ wTrack = 0 /\ wBuf = <<>> /\ failFile = <<>>
  /\ progress = <<>>
  /\ dequeues = [t \in TrackIds |-> 0]
  /\ increments = [t \in TrackIds |-> <<>>]
  /\ calls = [w \in Workers |-> 0]
  /\ renameOk = [w \in Workers |-> FALSE]
  /\ sleeping = [w \in Workers |-> 0]
  /\ cutShort = [w \in Workers |-> FALSE]

\* ---------------------------------------------------------------- Download
\* Download up to d.saveWg.Wait(): the goroutines are started
DownloadStart ==
  /\ dlPc = "init"
  /\ dlPc' = "wait"
  /\ totalTracks' = Len(tracks)
  /\ saveWg' = 1
  /\ wPc' = "open"
  /\ wg' = workers
  /\ pc' = [w \in Workers |-> IF w <= workers THEN "range" ELSE "unstarted"]
  /\ UNCHANGED <<asideVars, tracks, workers, counterVars, mutex, queueVars, chanClosed, localVars,
                 outDir, wTrack, wBuf, failFile, progress, dequeues, increments>>

\* the feeding goroutine: jobs <- track for every track, then close(jobs).
\* jobs has capacity len(tracks), so no send blocks and the loop runs through
FeedJobs ==
  /\ dlPc # "init"
  /\ ~jobsClosed
  /\ jobs' = tracks
  /\ jobsClosed' = TRUE
  /\ UNCHANGED <<asideVars, configVars, counterVars, mutex, wg, saveWg, chanClosed, dlPc, pc,
                 localVars, outDir, writerVars, progress, dequeues, increments>>

\* the closing goroutine: wg.Wait(); close(d.failedTracksChan)
CloseFailedChan ==
  /\ dlPc # "init"
  /\ wg = 0
  /\ ~chanClosed
  /\ chanClosed' = TRUE
  /\ UNCHANGED <<asideVars, configVars, counterVars, mutex, queueVars, wg, saveWg, dlPc, pc,
                 localVars, outDir, writerVars, progress, dequeues, increments>>

\* d.saveWg.Wait() returns and Download returns
DownloadReturn ==
  /\ dlPc = "wait"
  /\ saveWg = 0
  /\ dlPc' = "returned"
  /\ UNCHANGED <<asideVars, configVars, counterVars, mutex, queueVars, wg, saveWg, chanClosed,
                 pc, localVars, outDir, writerVars, progress, dequeues, increments>>

\* ------------------------------------------------------------------ worker
\* a lock that never excludes
MutexFree_Mut(m) == TRUE

\* d.mutex.Lock() can proceed
MutexFree(m) == m = 0

\* a retry loop that runs one attempt too many
LoopContinues_Mut(att) == att <= retryCount + 1

\* the retry loop continues with this attempt index
LoopContinues(att) == att <= retryCount

\* a worker that sleeps after the final attempt too
ShouldSleep_Mut(att) == att <= retryCount

\* a backoff sleep follows the failed attempt with this index
ShouldSleep(att) == att < retryCount

\* time.Second * time.Duration(attempt+1), in seconds
SleepSeconds(att) == att + 1

\* position of the worker after the attempt with index att returned res
AfterAttempt(res, att) ==
  IF res.Success THEN "lock"
  ELSE IF ShouldSleep(att) THEN "sleep"
  ELSE IF LoopContinues(att + 1) THEN "attempt" ELSE "lock"

\* the result variable at that position.  A failed result that is retried is
\* read by nothing but the "if result.Success" that follows the call and is
\* overwritten by the next call, so it is kept only when the loop ends
Kept(res, att) == IF AfterAttempt(res, att) = "lock" THEN res ELSE NoResult

\* seconds of the sleep the worker is in at that position, 0 when in none
SleepAfter(res, att) ==
  IF AfterAttempt(res, att) = "sleep" THEN SleepSeconds(att) ELSE 0

\* value of the loop variable at that position
AttemptAfter(res, att) ==
  IF res.Success \/ ShouldSleep(att) THEN att ELSE att + 1

\* a worker that forgets to count the skipped tracks
CounterFor_Mut(res) ==
  IF res.Success THEN (IF res.Skipped THEN "none" ELSE "downloaded") ELSE "failed"

\* the counter the worker increments for a final result
CounterFor(res) ==
  IF res.Success THEN (IF res.Skipped THEN "skipped" ELSE "downloaded") ELSE "failed"

\* a receive that leaves the job on the channel
AfterReceive_Mut(q) == q

\* what is left on the jobs channel after a receive
AfterReceive(q) == Tail(q)

\* a skip check that looks for the first extension only
AlreadyExists_Mut(dir, name) ==
  skipExists /\ Exists(dir, Path(name, extensions[1], FALSE))

\* the skip check of downloadTrack
AlreadyExists(dir, name) ==
  skipExists /\ FirstExisting(dir, name, FALSE) # 0

\* analyzeFailure(stderrOutput.String(), cmdErr) for each error text the tool
\* can leave and each outcome of cmd.Wait()
reasonFor ==
  [x \in 1..Len(ErrTexts) |-> [err \in BOOLEAN |-> analyzeFailure(ErrTexts[x], err)]]

\* a result that also requires a zero exit status
ResultAfterWait_Mut(found, renamed, reason, err) ==
  IF found
  THEN IF renamed /\ ~err
       THEN [Success |-> TRUE, Skipped |-> FALSE, Reason |-> NetworkError]
       ELSE [Success |-> FALSE, Skipped |-> FALSE, Reason |-> UnknownError]
  ELSE [Success |-> FALSE, Skipped |-> FALSE, Reason |-> reason]

\* the result downloadTrack returns after cmd.Wait(): found is the temp file
\* seen by os.Stat, renamed the outcome of os.Rename, reason the value of
\* analyzeFailure, err the value of cmd.Wait()
ResultAfterWait(found, renamed, reason, err) ==
  IF found
  THEN IF renamed
       THEN [Success |-> TRUE, Skipped |-> FALSE, Reason |-> NetworkError]
       ELSE [Success |-> FALSE, Skipped |-> FALSE, Reason |-> UnknownError]
  ELSE [Success |-> FALSE, Skipped |-> FALSE, Reason |-> reason]

\* for track := range jobs: a job is received.  Workers waiting at the range
\* statement hold no state of their own and are interchangeable, so the one
\* with the least index stands for whichever goroutine the runtime wakes
Dequeue(w) ==
  /\ pc[w] = "range"
  /\ \A v \in Workers : v < w => pc[v] # "range"
  /\ jobs # <<>>
  /\ track' = [track EXCEPT ![w] = Head(jobs)]
  /\ jobs' = AfterReceive(jobs)
  /\ attempt' = [attempt EXCEPT ![w] = 0]
  /\ pc' = [pc EXCEPT ![w] = IF LoopContinues(0) THEN "attempt" ELSE "lock"]
  /\ dequeues' = [dequeues EXCEPT ![Head(jobs)] = @ + 1]
  /\ UNCHANGED <<asideVars, configVars, counterVars, mutex, jobsClosed, wg, saveWg,
                 chanClosed, dlPc, result, calls, renameOk, sleeping, cutShort,
                 outDir,
                 writerVars, progress, increments>>

\* for track := range jobs: jobs is closed and drained; defer wg.Done()
WorkerExit(w) ==
  /\ pc[w] = "range"
  /\ \A v \in Workers : v < w => pc[v] # "range"
  /\ jobs = <<>>
  /\ jobsClosed
  /\ pc' = [pc EXCEPT ![w] = "done"]
  /\ wg' = wg - 1
  /\ UNCHANGED <<asideVars, configVars, counterVars, mutex, queueVars, saveWg, chanClosed, dlPc,
                 localVars, outDir, writerVars, progress, dequeues, increments>>

\* downloadTrack is called: the check for an existing file, then the pipes
\* and cmd.Start (each may fail).  getYtDlpCommand's version probe runs
\* only on the path that goes on to start the tool.
BeginAttempt(w) ==
  /\ pc[w] = "attempt"
  /\ calls' = [calls EXCEPT ![w] = @ + 1]
  /\ IF AlreadyExists(outDir, safeName[track[w]])
     THEN LET res == [Success |-> TRUE, Skipped |-> TRUE, Reason |-> NetworkError]
          IN /\ result' = [result EXCEPT ![w] = Kept(res, attempt[w])]
             /\ pc' = [pc EXCEPT ![w] = AfterAttempt(res, attempt[w])]
             /\ attempt' = [attempt EXCEPT ![w] = AttemptAfter(res, attempt[w])]
             /\ sleeping' = [sleeping EXCEPT ![w] = SleepAfter(res, attempt[w])]
     ELSE \E started \in BOOLEAN :
            IF started
            THEN /\ pc' = [pc EXCEPT ![w] = "running"]
                 /\ UNCHANGED <<result, attempt, sleeping>>
            ELSE LET res == [Success |-> FALSE, Skipped |-> FALSE, Reason |-> UnknownError]
                 IN /\ result' = [result EXCEPT ![w] = Kept(res, attempt[w])]
                    /\ pc' = [pc EXCEPT ![w] = AfterAttempt(res, attempt[w])]
                    /\ attempt' = [attempt EXCEPT ![w] = AttemptAfter(res, attempt[w])]
                    /\ sleeping' = [sleeping EXCEPT ![w] = SleepAfter(res, attempt[w])]
  /\ renameOk' = [renameOk EXCEPT ![w] = FALSE]
  /\ UNCHANGED <<asideVars, configVars, counterVars, mutex, queueVars, wg, saveWg, chanClosed,
                 dlPc, track, cutShort, outDir, writerVars, progress, dequeues,
                 increments>>

\* the tool runs and ends.  It leaves no file, or a temp file written through
\* the output template, the whole of it
ToolExit(w) ==
  /\ pc[w] = "running"
  /\ \/ UNCHANGED outDir
     \/ \E ext \in ToolExtensions :
          outDir' = outDir \cup {Path(safeName[track[w]], ext, TRUE)}
  /\ pc' = [pc EXCEPT ![w] = "waited"]
  /\ UNCHANGED <<asideVars, configVars, counterVars, mutex, queueVars, wg, saveWg, chanClosed,
                 dlPc, track, attempt, result, calls, renameOk, sleeping, cutShort, writerVars,
                 progress,
                 dequeues, increments>>

\* the tool is cut short (killed, connection lost, disk full): it ends and
\* leaves the part of the temp file it has written, or nothing when it had
\* not begun to write
ToolCutShort(w) ==
  /\ pc[w] = "running"
  /\ \/ UNCHANGED outDir
     \/ \E ext \in ToolExtensions :
          outDir' = outDir \cup {Path(safeName[track[w]], ext, TRUE)}
  /\ cutShort' = [cutShort EXCEPT ![w] = TRUE]
  /\ pc' = [pc EXCEPT ![w] = "waited"]
  /\ UNCHANGED <<asideVars, configVars, counterVars, mutex, queueVars, wg, saveWg, chanClosed,
                 dlPc, track, attempt, result, calls, renameOk, sleeping, writerVars,
                 progress, dequeues, increments>>

\* cmd.Wait() returns cmdErr (TRUE: non-nil); downloadTrack then looks for a
\* temp file, renames it (removing it when the rename fails), or classifies
\* the failure
ScanTemp(w) ==
  /\ pc[w] = "waited"
  /\ \E cmdErr \in BOOLEAN :
        LET name == safeName[track[w]]
            e == FirstExisting(outDir, name, TRUE)
        IN IF e # 0
           THEN LET tempPath == Path(name, extensions[e], TRUE)
                    finalPath == Path(name, extensions[e], FALSE)
                IN \E renamed \in BOOLEAN :
                     LET res == ResultAfterWait(TRUE, renamed, UnknownError, cmdErr)
                     IN /\ renameOk' = [renameOk EXCEPT ![w] = renamed]
                        /\ IF renamed
                           THEN outDir' = (outDir \ {tempPath}) \cup {finalPath}
                           ELSE \E removed \in BOOLEAN :
                                  outDir' = IF removed THEN outDir \ {tempPath} ELSE outDir
                        /\ result' = [result EXCEPT ![w] = Kept(res, attempt[w])]
                        /\ pc' = [pc EXCEPT ![w] = AfterAttempt(res, attempt[w])]
                        /\ attempt' = [attempt EXCEPT ![w] = AttemptAfter(res, attempt[w])]
                        /\ sleeping' = [sleeping EXCEPT ![w] = SleepAfter(res, attempt[w])]
           ELSE \E x \in 1..(IF MaxErrTexts < Len(ErrTexts) THEN MaxErrTexts ELSE Len(ErrTexts)) :
                  LET res == ResultAfterWait(FALSE, FALSE, reasonFor[x][cmdErr], cmdErr)
                  IN /\ renameOk' = [renameOk EXCEPT ![w] = FALSE]
                     /\ result' = [result EXCEPT ![w] = Kept(res, attempt[w])]
                     /\ pc' = [pc EXCEPT ![w] = AfterAttempt(res, attempt[w])]
                     /\ attempt' = [attempt EXCEPT ![w] = AttemptAfter(res, attempt[w])]
                     /\ sleeping' = [sleeping EXCEPT ![w] = SleepAfter(res, attempt[w])]
                     /\ UNCHANGED outDir
  /\ cutShort' = [cutShort EXCEPT ![w] = FALSE]
  /\ UNCHANGED <<asideVars, configVars, counterVars, mutex, queueVars, wg, saveWg, chanClosed,
                 dlPc, track, calls, writerVars, progress, dequeues, increments>>

\* time.Sleep between attempts, then attempt++ and the loop test
Backoff(w) ==
  /\ pc[w] = "sleep"
  /\ sleeping' = [sleeping EXCEPT ![w] = 0]
  /\ attempt' = [attempt EXCEPT ![w] = @ + 1]
  /\ pc' = [pc EXCEPT ![w] = IF LoopContinues(attempt[w] + 1) THEN "attempt" ELSE "lock"]
  /\ UNCHANGED <<asideVars, configVars, counterVars, mutex, queueVars, wg, saveWg, chanClosed,
                 dlPc, track, result, calls, renameOk, cutShort, outDir, writerVars,
                 progress, dequeues, increments>>

\* d.mutex.Lock() and the counter increment that follows it
LockAndCount(w) ==
  /\ pc[w] = "lock"
  /\ MutexFree(mutex)
  /\ mutex' = w
  /\ skipped' = skipped + (IF CounterFor(result[w]) = "skipped" THEN 1 ELSE 0)
  /\ downloaded' = downloaded + (IF CounterFor(result[w]) = "downloaded" THEN 1 ELSE 0)
  /\ failed' = failed + (IF CounterFor(result[w]) = "failed" THEN 1 ELSE 0)
  /\ increments' = [increments EXCEPT ![track[w]] = Append(@, CounterFor(result[w]))]
  /\ pc' = [pc EXCEPT ![w] = "print"]
  /\ UNCHANGED <<asideVars, configVars, queueVars, wg, saveWg, chanClosed, dlPc, localVars,
                 outDir, writerVars, progress, dequeues>>

\* the status word of the progress line
StatusOf(res) ==
  IF res.Success THEN (IF res.Skipped THEN "Already exists" ELSE "Downloaded")
  ELSE "Failed"

\* fmt.Printf of the progress line: [completed-so-far/total] status: raw
PrintProgress(w) ==
  /\ pc[w] = "print"
  /\ progress' = Append(progress,
                        [num |-> downloaded + skipped + failed,
                         status |-> StatusOf(result[w]),
                         raw |-> Raw[track[w]]])
  /\ pc' = [pc EXCEPT ![w] = IF result[w].Success THEN "unlock" ELSE "send"]
  /\ UNCHANGED <<asideVars, configVars, counterVars, mutex, queueVars, wg, saveWg, chanClosed,
                 dlPc, localVars, outDir, writerVars, dequeues, increments>>

\* d.failedTracksChan <- track meets the writer's receive (unbuffered channel)
SendFailed(w) ==
  /\ pc[w] = "send"
  /\ wPc = "recv"
  /\ ~chanClosed
  /\ wTrack' = track[w]
  /\ wPc' = "write"
  /\ pc' = [pc EXCEPT ![w] = "unlock"]
  /\ UNCHANGED <<asideVars, configVars, counterVars, mutex, queueVars, wg, saveWg, chanClosed,
                 dlPc, localVars, outDir, wBuf, failFile, progress, dequeues,
                 increments>>

\* d.mutex.Unlock(); the loop body ends and its variables go out of scope
Unlock(w) ==
  /\ pc[w] = "unlock"
  /\ mutex' = 0
  /\ pc' = [pc EXCEPT ![w] = "range"]
  /\ track' = [track EXCEPT ![w] = 0]
  /\ attempt' = [attempt EXCEPT ![w] = 0]
  /\ result' = [result EXCEPT ![w] = NoResult]
  /\ calls' = [calls EXCEPT ![w] = 0]
  /\ renameOk' = [renameOk EXCEPT ![w] = FALSE]
  /\ sleeping' = [sleeping EXCEPT ![w] = 0]
  /\ cutShort' = [cutShort EXCEPT ![w] = FALSE]
  /\ UNCHANGED <<asideVars, configVars, counterVars, queueVars, wg, saveWg, chanClosed, dlPc,
                 outDir, writerVars, progress, dequeues, increments>>

\* -------------------------------------------------- streamSaveFailedTracks
\* os.OpenFile succeeds
WriterOpen ==
  /\ wPc = "open"
  /\ wPc' = "recv"
  /\ UNCHANGED <<asideVars, configVars, counterVars, mutex, queueVars, wg, saveWg, chanClosed,
                 dlPc, pc, localVars, outDir, wTrack, wBuf,
                 failFile, progress, dequeues, increments>>

\* os.OpenFile fails: log, return, defer d.saveWg.Done()
WriterOpenFails ==
  /\ wPc = "open"
  /\ wPc' = "openfailed"
  /\ saveWg' = saveWg - 1
  /\ UNCHANGED <<asideVars, configVars, counterVars, mutex, queueVars, wg, chanClosed, dlPc, pc,
                 localVars, outDir, wTrack, wBuf, failFile,
                 progress, dequeues, increments>>

\* fmt.Fprintln(writer, track.Raw)
WriterWrite ==
  /\ wPc = "write"
  /\ wBuf' = Append(wBuf, Raw[wTrack])
  /\ wPc' = "flush"
  /\ UNCHANGED <<asideVars, configVars, counterVars, mutex, queueVars, wg, saveWg, chanClosed,
                 dlPc, pc, localVars, outDir, wTrack, failFile,
                 progress, dequeues, increments>>

\* writer.Flush() inside the loop
WriterFlush ==
  /\ wPc = "flush"
  /\ failFile' = failFile \o wBuf
  /\ wBuf' = <<>>
  /\ wPc' = "recv"
  /\ UNCHANGED <<asideVars, configVars, counterVars, mutex, queueVars, wg, saveWg, chanClosed,
                 dlPc, pc, localVars, outDir, wTrack, progress,
                 dequeues, increments>>

\* the range loop sees the channel closed; deferred Flush, Close, saveWg.Done
WriterClose ==
  /\ wPc = "recv"
  /\ chanClosed
  /\ failFile' = failFile \o wBuf
  /\ wBuf' = <<>>
  /\ wPc' = "closed"
  /\ saveWg' = saveWg - 1
  /\ UNCHANGED <<asideVars, configVars, counterVars, mutex, queueVars, wg, chanClosed, dlPc, pc,
                 localVars, outDir, wTrack, progress, dequeues, increments>>

\* ------------------------------------------------------------ specification
Next ==
  \/ DownloadStart
  \/ FeedJobs
  \/ CloseFailedChan
  \/ DownloadReturn
  \/ WriterOpen
  \/ WriterOpenFails
  \/ WriterWrite
  \/ WriterFlush
  \/ WriterClose
  \/ \E w \in Workers : Dequeue(w)
  \/ \E w \in Workers : WorkerExit(w)
  \/ \E w \in Workers : BeginAttempt(w)
  \/ \E w \in Workers : ToolExit(w)
  \/ \E w \in Workers : ScanTemp(w)
  \/ \E w \in Workers : Backoff(w)
  \/ \E w \in Workers : LockAndCount(w)
  \/ \E w \in Workers : PrintProgress(w)
  \/ \E w \in Workers : SendFailed(w)
  \/ \E w \in Workers : Unlock(w)

Spec == Init /\ [][Next]_vars

\* the steps of the goroutine running worker w
WorkerStep(w) ==
  \/ Dequeue(w)
  \/ WorkerExit(w)
  \/ BeginAttempt(w)
  \/ ToolExit(w)
  \/ ScanTemp(w)
  \/ Backoff(w)
  \/ LockAndCount(w)
  \/ PrintProgress(w)
  \/ SendFailed(w)
  \/ Unlock(w)

\* the steps of the goroutine running streamSaveFailedTracks
WriterStep ==
  \/ WriterOpen
  \/ WriterOpenFails
  \/ WriterWrite
  \/ WriterFlush
  \/ WriterClose

\* the run under a fair scheduler: a goroutine that can take a step is not
\* passed over forever, and a started tool ends (ToolExit is a worker step)
FairSpec ==
  /\ Spec
  /\ WF_vars(DownloadStart)
  /\ WF_vars(DownloadReturn)
  /\ WF_vars(FeedJobs)
  /\ WF_vars(CloseFailedChan)
  /\ WF_vars(WriterStep)
  /\ \A w \in Workers : WF_vars(WorkerStep(w))

\* the run with a tool that may be cut short.  The program reads nothing
\* that tells a part of a temp file from the whole of one, so the runs of
\* Spec are these runs with the mark cutShort left out
TransferNext ==
  \/ Next
  \/ \E w \in Workers : ToolCutShort(w)

TransferSpec == Init /\ [][TransferNext]_vars

\* ------------------------------------------------- analyzeFailure on its own
\* no run of Download is in progress
RunIdle ==
  /\ tracks = <<>> /\ workers = 1 /\ totalTracks = 0
  /\ downloaded = 0 /\ skipped = 0 /\ failed = 0
  /\ mutex = 0
  /\ jobs = <<>> /\ jobsClosed = FALSE
  /\ wg = 0 /\ saveWg = 0
  /\ chanClosed = FALSE
  /\ dlPc = "init"
  /\ pc = [w \in Workers |-> "unstarted"]
  /\ track = [w \in Workers |-> 0]
  /\ attempt = [w \in Workers |-> 0]
  /\ result = [w \in Workers |-> NoResult]
  /\ outDir = {}
  /\ wPc = "unstarted" /\ wTrack = 0 /\ wBuf = <<>> /\ failFile = <<>>
  /\ progress = <<>>
  /\ dequeues = [t \in TrackIds |-> 0]
  /\ increments = [t \in TrackIds |-> <<>>]
  /\ calls = [w \in Workers |-> 0]
  /\ renameOk = [w \in Workers |-> FALSE]
  /\ sleeping = [w \in Workers |-> 0]
  /\ cutShort = [w \in Workers |-> FALSE]

\* words of the tool's error output: with a network keyword (1, 2), with a
\* not-found keyword (3, 4), with neither (5, 6); some in upper case
ErrorWords ==
  << <<"P", "r", "o", "x", "y">>,
     <<"5", "0", "3">>,
     <<"N", "O", "T", " ", "f", "o", "u", "n", "d">>,
     <<"v", "i", "d", "e", "o", " ", "u", "n", "a", "v", "a", "i", "l", "a", "b", "l", "e">>,
     <<":", " ">>,
     <<"E", "R", "R", "O", "R">> >>

RECURSIVE Flatten(_)
\* the words of a text, joined
Flatten(ws) == IF ws = <<>> THEN <<>> ELSE Head(ws) \o Flatten(Tail(ws))

\* the error texts analyzeFailure is given: up to MaxWords words
ErrorTexts ==
  UNION {{Flatten([i \in 1..n |-> ErrorWords[f[i]]]) : f \in [1..n -> 1..Len(ErrorWords)]}
           : n \in 0..MaxWords}

AnalyzeInit ==
  /\ RunIdle
  /\ PlaylistIdle
  /\ DrainIdle
  /\ stderrText \in ErrorTexts
  /\ classified = <<>>

\* reason, message := analyzeFailure(errorOutput, cmdErr)
Classify ==
  /\ classified = <<>>
  /\ \E cmdErr \in BOOLEAN : classified' = <<analyzeFailure(stderrText, cmdErr)>>
  /\ UNCHANGED <<runVars, stderrText, playlistVars, drainVars>>

AnalyzeNext == Classify

AnalyzeSpec == AnalyzeInit /\ [][AnalyzeNext]_vars


\* --------------------------------------------------- readPlaylist on its own
\* lines of a playlist file: a track, the same track between blanks, a
\* second track, a title that holds the separator, an empty line, a blank
\* line and a line without separator
FileLines ==
  << <<"a", " ", "-", " ", "b">>,
     <<" ", "a", " ", "-", " ", "b", "\t">>,
     <<"c", " ", "-", " ", "d">>,
     <<"a", " ", "-", " ", "b", " ", "-", " ", "c">>,
     <<>>,
     <<" ">>,
     <<"a", "-", "b">> >>

\* the playlist files readPlaylist is given: up to MaxLines lines
Playlists ==
  UNION {{[i \in 1..n |-> FileLines[f[i]]] : f \in [1..n -> 1..Len(FileLines)]}
           : n \in 0..MaxLines}

PlaylistInit ==
  /\ RunIdle
  /\ AnalyzeIdle
  /\ DrainIdle
  /\ playlist \in Playlists
  /\ parsed = <<>>

\* tracks, err := readPlaylist(playlistFile)
ReadPlaylist ==
  /\ parsed = <<>>
  /\ parsed' = <<readPlaylist(playlist)>>
  /\ UNCHANGED <<runVars, analyzeVars, playlist, drainVars>>

PlaylistNext == ReadPlaylist

PlaylistSpec == PlaylistInit /\ [][PlaylistNext]_vars

\* ------------------------------------- the output readers of one attempt
\* lines the tool writes: one that holds "Downloading webpage", one that
\* holds "Downloading" without "webpage", one that holds neither
OutputLines ==
  << <<"D", "o", "w", "n", "l", "o", "a", "d", "i", "n", "g", " ", "w", "e", "b", "p", "a", "g", "e">>,
     <<"D", "o", "w", "n", "l", "o", "a", "d", "i", "n", "g", " ", "1", "%">>,
     <<"E", "R", "R", "O", "R">> >>

foundKeywords ==
  << <<"D", "o", "w", "n", "l", "o", "a", "d", "i", "n", "g">>,
     <<"E", "x", "t", "r", "a", "c", "t", "i", "n", "g">>,
     <<"[", "y", "o", "u", "t", "u", "b", "e", "]">>,
     <<"h", "a", "s", " ", "a", "l", "r", "e", "a", "d", "y", " ", "b", "e", "e", "n", " ",
       "d", "o", "w", "n", "l", "o", "a", "d", "e", "d">> >>

\* the condition on the line under which the 'Found' line is printed
MatchesFound(text) == AnyKeyword(text, foundKeywords)

\* the condition on the line under which the 'Downloading' line is printed
MatchesDownloading(text) ==
  /\ Contains(text, foundKeywords[1])
  /\ ~Contains(text, OutputLines[1])

matchesFound == [k \in 1..Len(OutputLines) |-> MatchesFound(OutputLines[k])]

matchesDownloading == [k \in 1..Len(OutputLines) |-> MatchesDownloading(OutputLines[k])]

\* what the tool may write to one stream: up to MaxStreamLines lines, each
\* the index of its text in OutputLines
StreamOutputs ==
  UNION {[1..n -> 1..Len(OutputLines)] : n \in 0..MaxStreamLines}

DrainInit ==
  /\ RunIdle
  /\ AnalyzeIdle
  /\ PlaylistIdle
  /\ toolLines \in [Streams -> StreamOutputs]
  /\ nWritten = [st \in Streams |-> 0]
  /\ nRead = [st \in Streams |-> 0]
  /\ toolExited = FALSE
  /\ waitPc = "start"
  /\ rdPc = [st \in Streams |-> "unstarted"]
  /\ scanned = [st \in Streams |-> 0]
  /\ builders = [st \in Streams |-> <<>>]
  /\ foundShown = FALSE /\ downloadingShown = FALSE
  /\ foundPrints = 0 /\ downloadingPrints = 0
  /\ transcript = <<>>

\* cmd.Start() succeeds and the two reader goroutines are started
StartTool ==
  /\ waitPc = "start"
  /\ waitPc' = "wait"
  /\ rdPc' = [st \in Streams |-> "scan"]
  /\ UNCHANGED <<runVars, analyzeVars, playlistVars, toolLines, nWritten, nRead,
                 toolExited, scanned, builders, foundShown, downloadingShown,
                 foundPrints, downloadingPrints, transcript>>

\* the tool writes its next line to a stream
ToolWrite(st) ==
  /\ waitPc # "start"
  /\ ~toolExited
  /\ nWritten[st] < Len(toolLines[st])
  /\ nWritten' = [nWritten EXCEPT ![st] = @ + 1]
  /\ UNCHANGED <<runVars, analyzeVars, playlistVars, toolLines, nRead, toolExited,
                 waitPc, rdPc, scanned, builders, foundShown, downloadingShown,
                 foundPrints, downloadingPrints, transcript>>

\* the tool exits, all its output written
ToolEnd ==
  /\ waitPc # "start"
  /\ ~toolExited
  /\ \A st \in Streams : nWritten[st] = Len(toolLines[st])
  /\ toolExited' = TRUE
  /\ UNCHANGED <<runVars, analyzeVars, playlistVars, toolLines, nWritten, nRead,
                 waitPc, rdPc, scanned, builders, foundShown, downloadingShown,
                 foundPrints, downloadingPrints, transcript>>

\* cmd.Wait() returns: it has seen the tool exit and closed the read ends of
\* the pipes of StdoutPipe and StderrPipe
WaitReturns ==
  /\ waitPc = "wait"
  /\ toolExited
  /\ waitPc' = "waited"
  /\ UNCHANGED <<runVars, analyzeVars, playlistVars, toolLines, nWritten, nRead,
                 toolExited, rdPc, scanned, builders, foundShown, downloadingShown,
                 foundPrints, downloadingPrints, transcript>>

\* no temp file is found: errorOutput := stderrBuilder.String()
ReadTranscript ==
  /\ waitPc = "waited"
  /\ transcript' = <<builders["stderr"]>>
  /\ waitPc' = "classified"
  /\ UNCHANGED <<runVars, analyzeVars, playlistVars, toolLines, nWritten, nRead,
                 toolExited, rdPc, scanned, builders, foundShown, downloadingShown,
                 foundPrints, downloadingPrints>>

\* the read end of the pipes is closed
PipesClosed == waitPc \in {"waited", "classified"}

\* scanner.Scan() of a reader: a read from the closed pipe fails and ends the
\* loop; else the next line is taken and appended to the builder; else, the
\* tool gone, the read meets the end of the stream
Scan(st) ==
  /\ rdPc[st] = "scan"
  /\ IF PipesClosed
     THEN /\ rdPc' = [rdPc EXCEPT ![st] = "end"]
          /\ UNCHANGED <<nRead, scanned, builders>>
     ELSE IF nRead[st] < nWritten[st]
     THEN /\ nRead' = [nRead EXCEPT ![st] = @ + 1]
          /\ scanned' = [scanned EXCEPT ![st] = toolLines[st][nRead[st] + 1]]
          /\ builders' = [builders EXCEPT ![st] = Append(@, toolLines[st][nRead[st] + 1])]
          /\ rdPc' = [rdPc EXCEPT ![st] = "found"]
     ELSE /\ toolExited
          /\ rdPc' = [rdPc EXCEPT ![st] = "end"]
          /\ UNCHANGED <<nRead, scanned, builders>>
  /\ UNCHANGED <<runVars, analyzeVars, playlistVars, toolLines, nWritten, toolExited,
                 waitPc, foundShown, downloadingShown, foundPrints,
                 downloadingPrints, transcript>>

\* if !foundShown && (the line matches): the unsynchronized read of the flag
CheckFound(st) ==
  /\ rdPc[st] = "found"
  /\ rdPc' = [rdPc EXCEPT ![st] =
                IF ~foundShown /\ matchesFound[scanned[st]] THEN "printFound"
                ELSE "downloading"]
  /\ UNCHANGED <<runVars, analyzeVars, playlistVars, toolLines, nWritten, nRead,
                 toolExited, waitPc, scanned, builders, foundShown, downloadingShown,
                 foundPrints, downloadingPrints, transcript>>

\* fmt.Printf of the 'Found' line; foundShown = true
PrintFound(st) ==
  /\ rdPc[st] = "printFound"
  /\ foundPrints' = foundPrints + 1
  /\ foundShown' = TRUE
  /\ rdPc' = [rdPc EXCEPT ![st] = "downloading"]
  /\ UNCHANGED <<runVars, analyzeVars, playlistVars, toolLines, nWritten, nRead,
                 toolExited, waitPc, scanned, builders, downloadingShown,
                 downloadingPrints, transcript>>

\* if !downloadingShown && (the line matches): the unsynchronized read
CheckDownloading(st) ==
  /\ rdPc[st] = "downloading"
  /\ rdPc' = [rdPc EXCEPT ![st] =
                IF ~downloadingShown /\ matchesDownloading[scanned[st]]
                THEN "printDownloading" ELSE "scan"]
  /\ UNCHANGED <<runVars, analyzeVars, playlistVars, toolLines, nWritten, nRead,
                 toolExited, waitPc, scanned, builders, foundShown, downloadingShown,
                 foundPrints, downloadingPrints, transcript>>

\* fmt.Printf of the 'Downloading' line; downloadingShown = true
PrintDownloading(st) ==
  /\ rdPc[st] = "printDownloading"
  /\ downloadingPrints' = downloadingPrints + 1
  /\ downloadingShown' = TRUE
  /\ rdPc' = [rdPc EXCEPT ![st] = "scan"]
  /\ UNCHANGED <<runVars, analyzeVars, playlistVars, toolLines, nWritten, nRead,
                 toolExited, waitPc, scanned, builders, foundShown, foundPrints,
                 transcript>>

DrainNext ==
  \/ StartTool
  \/ ToolEnd
  \/ WaitReturns
  \/ ReadTranscript
  \/ \E st \in Streams : ToolWrite(st)
  \/ \E st \in Streams : Scan(st)
  \/ \E st \in Streams : CheckFound(st)
  \/ \E st \in Streams : PrintFound(st)
  \/ \E st \in Streams : CheckDownloading(st)
  \/ \E st \in Streams : PrintDownloading(st)

DrainSpec == DrainInit /\ [][DrainNext]_vars

TypeOK ==
  /\ downloaded \in Nat /\ skipped \in Nat /\ failed \in Nat
  /\ mutex \in 0..MaxWorkers
  /\ dlPc \in {"init", "wait", "returned"}
  /\ wPc \in {"unstarted", "open", "recv", "write", "flush", "openfailed", "closed"}
  /\ \A w \in Workers :
       pc[w] \in {"unstarted", "range", "attempt", "running", "waited", "sleep",
                  "lock", "print", "send", "unlock", "done"}

\* ------------------------------------------------------------------ claims
\* extensions under which a temp file of this name exists
TempsOf(dir, name) ==
  {e \in 1..Len(extensions) : Path(name, extensions[e], TRUE) \in dir}

\* a final-named file of this name exists under some recognized extension
FinalExists(dir, name) ==
  \E e \in 1..Len(extensions) : Path(name, extensions[e], FALSE) \in dir

Occurrences(s, x) == Cardinality({i \in 1..Len(s) : s[i] = x})

\* progress lines printed for track t
Printed(t) == Cardinality({i \in 1..Len(progress) : progress[i].raw = Raw[t]})

CountedFailed(t) == \E i \in 1..Len(increments[t]) : increments[t][i] = "failed"

InList(t) == \E i \in 1..Len(tracks) : tracks[i] = t

AllWorkersDone == dlPc # "init" /\ \A w \in 1..workers : pc[w] = "done"

\* worker w takes the step that ends downloadTrack's wait-and-scan part
ScanStep(w) == pc[w] = "waited" /\ pc'[w] # "waited"

\* C1: when Download has returned, downloaded + skipped + failed equals
\* len(tracks), for every worker count and interleaving.
C1_CountersSumAtReturn ==
  dlPc = "returned" => downloaded + skipped + failed = Len(tracks)

\* C2: when Download has returned, every track counted as failed has its raw
\* line in the lines this run wrote to the failure file, exactly once.
C2_FailedWrittenOnce ==
  dlPc = "returned" =>
    \A t \in TrackIds : CountedFailed(t) => Occurrences(failFile, Raw[t]) = 1

\* C3: in every reachable state, a track counted in failed whose Failed line
\* was printed has its raw line flushed to the failure file.
C3_KillLosesNoRecord ==
  \A t \in TrackIds :
    (CountedFailed(t) /\ \E i \in 1..Len(progress) :
                           progress[i].status = "Failed" /\ progress[i].raw = Raw[t])
      => Occurrences(failFile, Raw[t]) >= 1

\* C4: Download has returned only if every worker has exited with the job
\* queue drained and the writer has seen failedTracksChan closed and flushed.
C4_ReturnAfterCompletion ==
  dlPc = "returned" =>
    /\ \A w \in 1..workers : pc[w] = "done"
    /\ jobs = <<>> /\ jobsClosed
    /\ chanClosed /\ wPc = "closed" /\ wBuf = <<>>

\* C5: a downloadTrack call made while a final-named file of the track's
\* sanitized name exists returns Success with Skipped, starts no subprocess
\* and leaves the directory alone; the worker then counts the track in
\* skipped and in no other counter.
C5_ExistingFileIsSkipped ==
  [][\A w \in Workers :
       /\ (pc[w] = "attempt" /\ calls'[w] = calls[w] + 1
             /\ FinalExists(outDir, safeName[track[w]]))
            => /\ result'[w].Success /\ result'[w].Skipped
               /\ pc'[w] = "lock"
               /\ outDir' = outDir
       /\ (pc[w] = "lock" /\ pc'[w] = "print" /\ result[w].Skipped)
            => /\ skipped' = skipped + 1
               /\ downloaded' = downloaded /\ failed' = failed
               /\ increments'[track[w]] = <<"skipped">>]_vars

\* a skipped track has been counted, the file found under the last extension
C5_Witness ==
  \E w \in Workers :
    /\ pc[w] = "print" /\ result[w].Skipped /\ skipped = 1
    /\ Path(safeName[track[w]], ".opus", FALSE) \in outDir

\* C6: for every dequeued track the number of downloadTrack calls is at
\* least 1 and at most retryCount + 1, and no call follows a call that
\* returned Success.
C6_AttemptsBounded ==
  [][\A w \in Workers :
       /\ calls'[w] <= retryCount + 1
       /\ pc'[w] \in {"lock", "print", "send", "unlock"} => calls'[w] >= 1
       /\ calls'[w] > calls[w] => ~result[w].Success]_vars

\* all retryCount + 1 attempts were made and failed
C6_Witness ==
  \E w \in Workers :
    pc[w] = "lock" /\ calls[w] = retryCount + 1 /\ ~result[w].Success

\* C7: the completed-so-far numbers of the progress lines, in print order,
\* are exactly 1, 2, 3, ...
C7_ProgressNumbersGapFree ==
  \A i \in 1..Len(progress) : progress[i].num = i

\* a line has been printed under the lock while another worker, its track
\* finished, waits for the lock to count and print the next one
C7_Witness ==
  \E w, v \in Workers :
    w # v /\ pc[w] = "unlock" /\ pc[v] = "lock" /\ Len(progress) >= 1

C9_SuccessByFilePresence ==
  [][\A w \in Workers :
       ScanStep(w) =>
         LET name == safeName[track[w]]
             temps == TempsOf(outDir, name)
         IN /\ result'[w].Success <=> (temps # {} /\ renameOk'[w])
            /\ ~result'[w].Skipped
            /\ result'[w].Success =>
                 \E e \in temps :
                   /\ Path(name, extensions[e], FALSE) \in outDir'
                   /\ Path(name, extensions[e], TRUE) \notin outDir']_vars

\* an attempt ran the tool, renamed its temp file and returned Success
C9_Witness ==
  \E w \in Workers :
    /\ pc[w] = "lock" /\ result[w].Success /\ ~result[w].Skipped /\ renameOk[w]
    /\ FinalExists(outDir, safeName[track[w]])

\* C10: when an attempt returns a non-skipped Success, no temp file of the
\* track's sanitized name is left in the output directory.
C10_NoTempAfterSuccess ==
  [][\A w \in Workers :
       (ScanStep(w) /\ result'[w].Success)
         => TempsOf(outDir', safeName[track[w]]) = {}]_vars

\* the writer has received track t from failedTracksChan
Handed(t) ==
  \/ wTrack = t
  \/ Occurrences(wBuf, Raw[t]) >= 1
  \/ Occurrences(failFile, Raw[t]) >= 1

\* the track of worker w is counted as failed only after all attempts failed
C11_CountPart ==
  \A w \in Workers :
    /\ (pc[w] \in {"lock", "print", "send", "unlock"} /\ ~result[w].Success)
         => calls[w] = retryCount + 1
    /\ pc[w] \in {"print", "send", "unlock"}
         => (CountedFailed(track[w]) <=> ~result[w].Success)

\* C11: a track is counted as failed exactly when all retryCount + 1
\* attempts for it returned failure, and when Download has returned every
\* track counted as failed has been handed to the failure writer.
C11_FailedIffExhausted ==
  /\ C11_CountPart
  /\ dlPc = "returned" => \A t \in TrackIds : CountedFailed(t) => Handed(t)

\* the text holds one of the keywords, whatever the case of its letters
HoldsKeyword(text, keywords) ==
  \E k \in 1..Len(keywords) : Contains(ToLower(text), keywords[k])

\* C12: for every error text that holds at least one network keyword and at
\* least one not-found keyword (case-insensitive), analyzeFailure returns
\* NetworkError.
C12_NetworkBeforeNotFound ==
  (classified # <<>> /\ HoldsKeyword(stderrText, networkKeywords)
     /\ HoldsKeyword(stderrText, notFoundKeywords))
    => classified = <<NetworkError>>

\* a text whose first keyword is a not-found keyword and whose network
\* keyword is in upper case further on was classified as NetworkError
C12_Witness ==
  /\ classified = <<NetworkError>>
  /\ Len(stderrText) > 9
  /\ SubSeq(stderrText, 1, 9) = ErrorWords[3]
  /\ HoldsKeyword(stderrText, networkKeywords)

\* position of the first line of the file that is this raw line between
\* blanks; 0 when there is none
FirstLine(raw) ==
  LET hits == {k \in 1..Len(playlist) : TrimSpace(playlist[k]) = raw}
  IN IF hits = {} THEN 0 ELSE CHOOSE k \in hits : \A j \in hits : k <= j

\* C14: the track list readPlaylist returns holds no two tracks with the
\* same Raw line, and its tracks are in the order of the first occurrence of
\* their lines in the file.
C14_NoDuplicatesFirstSeenOrder ==
  parsed # <<>> =>
    /\ \A i \in 1..Len(parsed[1]) : FirstLine(parsed[1][i].Raw) >= 1
    /\ \A i, j \in 1..Len(parsed[1]) :
         i < j => /\ parsed[1][i].Raw # parsed[1][j].Raw
                  /\ FirstLine(parsed[1][i].Raw) < FirstLine(parsed[1][j].Raw)

\* a file whose third line repeats its first between blanks was parsed into
\* two tracks
C14_Witness ==
  /\ parsed # <<>> /\ Len(parsed[1]) = 2
  /\ Len(playlist) = 3
  /\ playlist[1] # playlist[3]
  /\ TrimSpace(playlist[3]) = TrimSpace(playlist[1])

\* the failure file of a run in which the tracks of this run failed, in order
FailureFileOfTracks == [i \in 1..Len(tracks) |-> Raw[tracks[i]]]

\* this run replays such a failure file: readPlaylist returns its tracks
IsReplay ==
  readPlaylist(FailureFileOfTracks) = [i \in 1..Len(tracks) |-> TrackUniverse[tracks[i]]]

\* a file of the track's sanitized name was in the directory before the run
PresentAtStart(t) == FinalExists(outDir \cap EarlierDownloads, safeName[t])

\* C13: a run whose playlist is the failure file of an earlier run, with a
\* recognized-extension file present for every track of it, starts no
\* subprocess and ends with downloaded = 0, failed = 0 and skipped = the
\* number of parsed tracks.
C13_ReplayIsFullSkip ==
  (IsReplay /\ \A i \in 1..Len(tracks) : PresentAtStart(tracks[i]))
    => /\ \A w \in Workers : pc[w] \notin {"running", "waited"}
       /\ downloaded = 0 /\ failed = 0
       /\ dlPc = "returned" => skipped = Len(tracks)

RECURSIVE DequeuedUpTo(_)
\* jobs received from the job queue so far, over the tracks 1..n
DequeuedUpTo(n) == IF n = 0 THEN 0 ELSE dequeues[n] + DequeuedUpTo(n - 1)

Dequeued == DequeuedUpTo(Len(TrackUniverse))

\* workers that have received a job and not yet incremented a counter for it
InFlight ==
  Cardinality({w \in Workers : pc[w] \in {"attempt", "running", "waited", "sleep", "lock"}})

\* C15 as stated: in every reachable state downloaded + skipped + failed
\* equals the number of jobs dequeued so far.
C15_CountersEqualDequeued ==
  downloaded + skipped + failed = Dequeued

\* C15 as amended: in every reachable state downloaded + skipped + failed
\* equals the number of jobs dequeued so far minus the number of workers
\* that hold a dequeued job and have not yet incremented a counter for it.
C15_CountersTrailDequeued ==
  downloaded + skipped + failed = Dequeued - InFlight

\* one track is counted while the worker of another is still downloading
C15_Witness ==
  /\ downloaded + skipped + failed >= 1
  /\ \E w \in Workers : pc[w] = "running"

\* worker w is inside the retry loop: its downloadTrack call checks, writes
\* (through the tool), stats or renames the paths of its sanitized name
InAttempt(w) == pc[w] \in {"attempt", "running", "waited"}

\* C16: the distinct tracks two workers hold map to distinct sanitized
\* names, so at no time do two workers run attempts on the same temp or
\* final paths of the output directory.
C16_NoSharedPaths ==
  \A w, v \in Workers :
    (w # v /\ InAttempt(w) /\ InAttempt(v))
      => /\ track[w] # track[v]
         /\ safeName[track[w]] # safeName[track[v]]

\* some line a reader has scanned meets the condition
ScannedSome(matches) ==
  \E st \in Streams : \E i \in 1..Len(builders[st]) : matches[builders[st][i]]

ReadersEnded == \A st \in Streams : rdPc[st] = "end"

\* C17: within one attempt the 'Found' line and the 'Downloading' line are
\* each printed at most once, and exactly once when the readers have ended
\* and a line they scanned carried matching text, on whichever stream.
C17_ProgressLinesOnce ==
  /\ foundPrints <= 1
  /\ downloadingPrints <= 1
  /\ ReadersEnded =>
       /\ (foundPrints = 1 <=> ScannedSome(matchesFound))
       /\ (downloadingPrints = 1 <=> ScannedSome(matchesDownloading))

\* C20: when the failed attempt is classified, the error text read from
\* stderrBuilder holds every line the tool wrote to stderr in the attempt.
C20_TranscriptComplete ==
  transcript # <<>> => transcript[1] = toolLines["stderr"]

\* the step ends a downloadTrack call of worker w
AttemptEnds(w) ==
  \/ pc[w] = "attempt" /\ pc'[w] # "attempt" /\ pc'[w] # "running"
  \/ pc[w] = "waited" /\ pc'[w] # "waited"

RenameFails(w) ==
  /\ pc[w] = "waited"
  /\ pc'[w] # "waited"
  /\ FirstExisting(outDir, safeName[track[w]], TRUE) # 0
  /\ ~renameOk'[w]

\* the attempt of worker w has returned a failure with reason UnknownError
\* (that of an attempt that is retried is dropped by the loop)
FailsAsUnknown(w) ==
  /\ pc'[w] \in {"sleep", "lock"}
  /\ pc'[w] = "lock" =>
       result'[w] = [Success |-> FALSE, Skipped |-> FALSE, Reason |-> UnknownError]
  /\ pc'[w] = "sleep" => attempt[w] < retryCount

\* C19: if the rename of a found temp file fails, the attempt returns a
\* failure with reason UnknownError, the temp file is gone and the attempt
\* has created no file under the final name.
C19_RenameFailureCleansUp ==
  [][\A w \in Workers :
       RenameFails(w) =>
         LET name == safeName[track[w]]
             e == FirstExisting(outDir, name, TRUE)
         IN /\ FailsAsUnknown(w)
            /\ Path(name, extensions[e], TRUE) \notin outDir'
            /\ \A x \in 1..Len(extensions) :
                 Path(name, extensions[x], FALSE) \in outDir' =>
                   Path(name, extensions[x], FALSE) \in outDir]_vars

\* the step is the scan of worker w after a tool that was cut short: it left
\* a part of its temp file, or no file at all (a temp file the scan then
\* finds is one left by an earlier attempt)
ScanAfterIncomplete(w) ==
  /\ pc[w] = "waited"
  /\ pc'[w] # "waited"
  /\ cutShort[w]

\* C21: an attempt whose tool ended without completing the transfer renames
\* no temp file to a final name and does not report Success.
C21_IncompleteNeverPromoted ==
  [][\A w \in Workers :
       ScanAfterIncomplete(w) =>
         /\ ~renameOk'[w]
         /\ \A x \in 1..Len(extensions) :
              Path(safeName[track[w]], extensions[x], FALSE) \in outDir' =>
                Path(safeName[track[w]], extensions[x], FALSE) \in outDir
         /\ pc'[w] = "lock" => ~result'[w].Success]_vars

\* the raw lines of the 'Failed' progress lines printed so far, in print order
RECURSIVE FailedLines(_)
FailedLines(lines) ==
  IF lines = <<>> THEN <<>>
  ELSE IF Head(lines).status = "Failed"
       THEN <<Head(lines).raw>> \o FailedLines(Tail(lines))
       ELSE FailedLines(Tail(lines))

\* the lines the writer has taken from the channel: in the file, in the
\* buffer, or received and not yet written
TakenByWriter ==
  failFile \o wBuf \o (IF wPc = "write" THEN <<Raw[wTrack]>> ELSE <<>>)

IsPrefix(s, t) == Len(s) <= Len(t) /\ SubSeq(t, 1, Len(s)) = s

\* C22: the lines the run has appended to the failure file are, in order, the
\* raw lines of the first 'Failed' progress lines (so none belongs to a track
\* reported as downloaded or skipped), and so are the lines the writer holds.
C22_FailureFileFollowsProgress ==
  /\ IsPrefix(failFile, FailedLines(progress))
  /\ IsPrefix(TakenByWriter, FailedLines(progress))

\* two workers have failed one track each, the second track of the list
\* first, and both lines are in the file
C22_Witness ==
  /\ workers = 2
  /\ Len(tracks) = 2
  /\ Len(failFile) = 2
  /\ failFile[1] = Raw[tracks[2]]
  /\ failFile[2] = Raw[tracks[1]]
  /\ failFile[1] # failFile[2]

\* every worker has left its loop, the writer has returned and Download has
\* returned
AllExited ==
  /\ dlPc = "returned"
  /\ wPc \in {"closed", "openfailed"}
  /\ \A w \in 1..workers : pc[w] = "done"

\* C23: under fair scheduling every worker eventually exits, the failure
\* writer eventually exits and Download eventually returns, whether or not
\* the failure file can be opened.
C23_EveryoneExits == <>AllExited

====
